---- MODULE Spec2Model ----
(***************************************************************************)
(* The productivity-scoring engine of src/lib/calculate-rtp.tsx:           *)
(* getPriorityWeight, calculateRTP, calculateDynamicWeight,                *)
(* calculateSubtaskContribution, calculateWorkloadMetrics, classifyTask.   *)
(*                                                                         *)
(* Timestamps are whole hours of local time (new Date(s).getTime() in      *)
(* hours, no DST).  An optional value is a sequence of length 0 or 1, an   *)
(* optional number that the code tests for truthiness is 0 when unset.     *)
(*                                                                         *)
(* user is the dashboard's current user, now the wall clock, form the      *)
(* draft task a caller of classifyTask holds (the add-task form's input);  *)
(* call, ret and locals are the call being shown:                          *)
(* its arguments, its returned value and its local sums or scores; log     *)
(* lists the classifications made so far.                                  *)
(***************************************************************************)
EXTENDS Integers, Sequences, FiniteSets, TLC

VARIABLES user, now, form, call, ret, locals, log

vars == <<user, now, form, call, ret, locals, log>>

(***************************************************************************)
(* JavaScript numbers.  A finite number is an exact rational <<n, d>> in   *)
(* lowest terms with d > 0; NaN is <<0, 0>>, +Infinity <<1, 0>> and        *)
(* -Infinity <<-1, 0>>.  null is the empty tuple.                          *)
(***************************************************************************)
Abs(n) == IF n < 0 THEN -n ELSE n

Sign(n) == IF n < 0 THEN -1 ELSE IF n > 0 THEN 1 ELSE 0

RECURSIVE GCD(_, _)
GCD(a, b) == IF b = 0 THEN a ELSE GCD(b, a % b)

Frac(n, d) ==
    IF d = 0 THEN <<Sign(n), 0>>
    ELSE LET g == GCD(Abs(n), Abs(d))
             s == IF d < 0 THEN -1 ELSE 1
         IN  <<(s * n) \div g, (s * d) \div g>>

R(n) == <<n, 1>>

NaN == <<0, 0>>

Null == <<>>

IsNaN(x) == x = NaN

IsFinite(x) == x[2] # 0

RNeg(x) == <<-x[1], x[2]>>

RAdd(x, y) ==
    IF IsNaN(x) \/ IsNaN(y) THEN NaN
    ELSE IF ~IsFinite(x) /\ ~IsFinite(y) THEN (IF x = y THEN x ELSE NaN)
    ELSE IF ~IsFinite(x) THEN x
    ELSE IF ~IsFinite(y) THEN y
    ELSE LET g == GCD(x[2], y[2])
         IN  Frac(x[1] * (y[2] \div g) + y[1] * (x[2] \div g), (x[2] \div g) * y[2])

RSub(x, y) == RAdd(x, RNeg(y))

RMul(x, y) ==
    IF IsNaN(x) \/ IsNaN(y) THEN NaN
    ELSE IF ~IsFinite(x) \/ ~IsFinite(y) THEN <<Sign(x[1]) * Sign(y[1]), 0>>
    ELSE LET g1 == GCD(Abs(x[1]), y[2])
             g2 == GCD(Abs(y[1]), x[2])
         IN  Frac((x[1] \div g1) * (y[1] \div g2), (x[2] \div g2) * (y[2] \div g1))

RInv(x) ==
    IF IsNaN(x) THEN NaN
    ELSE IF ~IsFinite(x) THEN R(0)
    ELSE IF x[1] = 0 THEN <<1, 0>>
    ELSE Frac(x[2], x[1])

RDiv(x, y) == RMul(x, RInv(y))

\* x < y for finite x and y, by their integer parts and then, as in
\* Euclid's algorithm, by the inverses of their fractional parts.
RECURSIVE FiniteLt(_, _)
FiniteLt(x, y) ==
    LET fx == x[1] \div x[2]
        fy == y[1] \div y[2]
        rx == <<x[1] - fx * x[2], x[2]>>
        ry == <<y[1] - fy * y[2], y[2]>>
    IN  IF fx # fy THEN fx < fy
        ELSE IF ry[1] = 0 THEN FALSE
        ELSE IF rx[1] = 0 THEN TRUE
        ELSE FiniteLt(<<ry[2], ry[1]>>, <<rx[2], rx[1]>>)

RLt(x, y) ==
    /\ ~IsNaN(x)
    /\ ~IsNaN(y)
    /\ IF IsFinite(x) /\ IsFinite(y) THEN FiniteLt(x, y)
       ELSE IF IsFinite(x) THEN y[1] > 0
       ELSE IF IsFinite(y) THEN x[1] < 0
       ELSE x[1] < y[1]

RLe(x, y) == ~IsNaN(x) /\ ~IsNaN(y) /\ (x = y \/ RLt(x, y))

RMin(x, y) == IF IsNaN(x) \/ IsNaN(y) THEN NaN ELSE IF RLt(y, x) THEN y ELSE x

RMax(x, y) == IF IsNaN(x) \/ IsNaN(y) THEN NaN ELSE IF RLt(x, y) THEN y ELSE x

RAbs(x) == <<Abs(x[1]), x[2]>>

\* Math.round: the nearest integer, halves rounded up.
RRound(x) == IF ~IsFinite(x) THEN x ELSE R((2 * x[1] + x[2]) \div (2 * x[2]))

IntMin(a, b) == IF a < b THEN a ELSE b

\* Math.log10, exact at the powers of ten and linear between two of them.
RECURSIVE Log10(_)
Log10(x) ==
    IF IsNaN(x) \/ RLt(x, R(0)) THEN NaN
    ELSE IF x = R(0) THEN <<-1, 0>>
    ELSE IF ~IsFinite(x) THEN x
    ELSE IF RLt(x, R(1)) THEN RNeg(Log10(RInv(x)))
    ELSE IF RLt(x, R(10)) THEN RDiv(RSub(x, R(1)), R(9))
    ELSE RAdd(R(1), Log10(RDiv(x, R(10))))

\* 100 * k^1.2 rounded, for k = 0 .. 35.
Pow12Table ==
    <<0, 100, 230, 374, 528, 690, 859, 1033, 1213, 1397, 1585, 1777, 1973,
      2171, 2373, 2578, 2786, 2996, 3209, 3424, 3641, 3861, 4082, 4306, 4532,
      4759, 4988, 5220, 5452, 5687, 5923, 6161, 6400, 6641, 6883, 7127>>

\* Math.pow(x, 1.2): NaN for a negative base, else the table's value, linear
\* between two integers.
Pow12(x) ==
    IF IsNaN(x) \/ RLt(x, R(0)) THEN NaN
    ELSE IF ~IsFinite(x) THEN x
    ELSE LET k  == x[1] \div x[2]
             lo == Pow12Table[k + 1]
             hi == Pow12Table[k + 2]
         IN  RDiv(RAdd(R(lo), RMul(RSub(x, R(k)), R(hi - lo))), R(100))

(***************************************************************************)
(* Weight Model                                                            *)
(***************************************************************************)
\* One day in the model's time unit (1000 * 60 * 60 * 24 ms).
DAY == 24

\* Mutant of getPriorityWeight: no weight for a tier that is none of the three.
getPriorityWeightWithoutDefault(priority, type) ==
    IF priority # 0 THEN priority
    ELSE CASE type = "LOW" -> 2
           [] type = "MID" -> 5
           [] type = "HIGH" -> 8
           [] OTHER -> 0

\* priority 0 is "no explicit priority" (undefined is falsy, as is 0).
getPriorityWeight(priority, type) ==
    IF priority # 0 THEN priority
    ELSE CASE type = "LOW" -> 2
           [] type = "MID" -> 5
           [] type = "HIGH" -> 8
           [] OTHER -> 5

DefaultWeightPreferences ==
    [deadline |-> Frac(4, 10), priority |-> Frac(4, 10), complexity |-> Frac(2, 10)]

\* Mutant of TomorrowEnd: the window is the two days after the current time.
TomorrowEndTwoDaysFromNow(t) == t + 2 * DAY + 1

\* The first instant after tomorrow 23:59:59.999: on the whole-hour grid
\* "deadline <= tomorrow" is "deadline < TomorrowEnd(now)".
TomorrowEnd(t) == ((t \div DAY) + 2) * DAY

\* Mutant of calculateWorkloadMetrics: the three-day instant is left out.
calculateWorkloadMetricsBeforeThreeDays(u, t) ==
    LET dailyCapacity == IF u.preferences.workloadCapacity # 0
                         THEN u.preferences.workloadCapacity ELSE 5
        Upcoming(task) == task.endDateTime < TomorrowEnd(t) /\ ~task.completed
        Blocked(task) == ~task.completed /\ task.blockedBy > 0
        threeDaysFromNow == t + 3 * DAY
        Deadline(task) ==
            /\ task.endDateTime < threeDaysFromNow
            /\ ~(task.endDateTime < TomorrowEnd(t))
            /\ ~task.completed
        ids == 1..Len(u.tasks)
        currentLoad == Cardinality({i \in ids : Upcoming(u.tasks[i])})
    IN  [dailyCapacity |-> dailyCapacity,
         currentLoad |-> currentLoad,
         overloadFactor |-> Frac(currentLoad, dailyCapacity),
         upcomingDeadlines |-> Cardinality({i \in ids : Deadline(u.tasks[i])}),
         blockedTasks |-> Cardinality({i \in ids : Blocked(u.tasks[i])})]

calculateWorkloadMetrics(u, t) ==
    LET dailyCapacity == IF u.preferences.workloadCapacity # 0
                         THEN u.preferences.workloadCapacity ELSE 5
        Upcoming(task) == task.endDateTime < TomorrowEnd(t) /\ ~task.completed
        Blocked(task) == ~task.completed /\ task.blockedBy > 0
        threeDaysFromNow == t + 3 * DAY
        Deadline(task) ==
            /\ task.endDateTime <= threeDaysFromNow
            /\ ~(task.endDateTime < TomorrowEnd(t))
            /\ ~task.completed
        ids == 1..Len(u.tasks)
        currentLoad == Cardinality({i \in ids : Upcoming(u.tasks[i])})
    IN  [dailyCapacity |-> dailyCapacity,
         currentLoad |-> currentLoad,
         overloadFactor |-> Frac(currentLoad, dailyCapacity),
         upcomingDeadlines |-> Cardinality({i \in ids : Deadline(u.tasks[i])}),
         blockedTasks |-> Cardinality({i \in ids : Blocked(u.tasks[i])})]

\* Mutant of urgencyFactor: the overdue multiplier is not capped.
urgencyFactorUncapped(task, t) ==
    LET timeRemaining == task.endDateTime - t
        totalTaskDuration == task.endDateTime - task.startDateTime
        durationFactor == RMax(R(1), Log10(Frac(totalTaskDuration, DAY)))
        notDue ==
            IF timeRemaining > 0 /\ totalTaskDuration > 0
            THEN RAdd(R(1), RMul(RMul(RSub(R(1), Frac(timeRemaining, totalTaskDuration)),
                                      Frac(1, 2)), durationFactor))
            ELSE R(1)
    IN  IF timeRemaining < 0
        THEN RAdd(R(1), Frac(Abs(timeRemaining),
                             IF totalTaskDuration # 0 THEN totalTaskDuration ELSE DAY))
        ELSE notDue

urgencyFactor(task, t) ==
    LET timeRemaining == task.endDateTime - t
        totalTaskDuration == task.endDateTime - task.startDateTime
        durationFactor == RMax(R(1), Log10(Frac(totalTaskDuration, DAY)))
        notDue ==
            IF timeRemaining > 0 /\ totalTaskDuration > 0
            THEN RAdd(R(1), RMul(RMul(RSub(R(1), Frac(timeRemaining, totalTaskDuration)),
                                      Frac(1, 2)), durationFactor))
            ELSE R(1)
    IN  IF timeRemaining < 0
        THEN RMin(R(3), RAdd(R(1), Frac(Abs(timeRemaining),
                                        IF totalTaskDuration # 0 THEN totalTaskDuration ELSE DAY)))
        ELSE notDue

complexityFactor(task) ==
    LET subs == IF Len(task.subTasks) > 0
                THEN Frac(IntMin(10, Len(task.subTasks)), 10) ELSE R(0)
        coll == IF task.collaborators > 0
                THEN Frac(IntMin(5, task.collaborators), 10) ELSE R(0)
    IN  RAdd(RAdd(R(1), subs), coll)

\* Mutant of weightedAverage: the sum is not divided by the preferences' sum.
weightedAverageUnnormalised(task, u, t) ==
    LET baseWeight == R(getPriorityWeight(task.priority, task.type))
        preferences == IF Len(u.preferences.weightPreferences) > 0
                       THEN u.preferences.weightPreferences[1]
                       ELSE DefaultWeightPreferences
    IN  RAdd(RAdd(RMul(baseWeight, preferences.priority),
                  RMul(RMul(baseWeight, urgencyFactor(task, t)), preferences.deadline)),
             RMul(RMul(baseWeight, complexityFactor(task)), preferences.complexity))

\* Steps 1-3: the weighted average before the two post-adjustments.
weightedAverage(task, u, t) ==
    LET baseWeight == R(getPriorityWeight(task.priority, task.type))
        preferences == IF Len(u.preferences.weightPreferences) > 0
                       THEN u.preferences.weightPreferences[1]
                       ELSE DefaultWeightPreferences
    IN  RDiv(RAdd(RAdd(RMul(baseWeight, preferences.priority),
                       RMul(RMul(baseWeight, urgencyFactor(task, t)), preferences.deadline)),
                  RMul(RMul(baseWeight, complexityFactor(task)), preferences.complexity)),
             RAdd(RAdd(preferences.priority, preferences.deadline), preferences.complexity))

isProductiveHour(u, t) ==
    LET currentHour == t % DAY
    IN  \E i \in 1..Len(u.preferences.productiveHours) :
            /\ currentHour >= u.preferences.productiveHours[i].start
            /\ currentHour < u.preferences.productiveHours[i].end

\* Step 4: the productive-hour boost.
productiveAdjusted(task, u, t) ==
    IF isProductiveHour(u, t)
    THEN RMul(weightedAverage(task, u, t), Frac(11, 10))
    ELSE weightedAverage(task, u, t)

\* Mutant of overloadApplies: the declared capacity is not consulted.
overloadAppliesWithoutCapacity(u, t) ==
    RLt(R(1), calculateWorkloadMetrics(u, t).overloadFactor)

\* Step 5 is entered only when a workload capacity is declared.
overloadApplies(u, t) ==
    /\ u.preferences.workloadCapacity # 0
    /\ RLt(R(1), calculateWorkloadMetrics(u, t).overloadFactor)

\* Mutant of calculateDynamicWeight: the power is taken before the boost.
calculateDynamicWeightPowerFirst(task, u, t) ==
    LET raised == IF overloadApplies(u, t)
                  THEN Pow12(weightedAverage(task, u, t))
                  ELSE weightedAverage(task, u, t)
    IN  IF isProductiveHour(u, t) THEN RMul(raised, Frac(11, 10)) ELSE raised

calculateDynamicWeight(task, u, t) ==
    IF overloadApplies(u, t)
    THEN Pow12(productiveAdjusted(task, u, t))
    ELSE productiveAdjusted(task, u, t)

(***************************************************************************)
(* Subtask Aggregator                                                      *)
(***************************************************************************)
RECURSIVE SubtaskWeightSum(_, _)
SubtaskWeightSum(subtasks, onlyCompleted) ==
    IF subtasks = <<>> THEN 0
    ELSE LET s == Head(subtasks)
         IN  (IF onlyCompleted /\ ~s.completed THEN 0 ELSE getPriorityWeight(s.priority, s.type))
             + SubtaskWeightSum(Tail(subtasks), onlyCompleted)

\* Mutant of calculateSubtaskContribution: always the unweighted ratio.
calculateSubtaskContributionByCount(task) ==
    LET subtasks == task.subTasks
        totalSubtasks == Len(subtasks)
        completedSubtasks == Cardinality({i \in 1..Len(subtasks) : subtasks[i].completed})
        weightedCompletion == SubtaskWeightSum(subtasks, TRUE)
        totalSubtaskWeight == SubtaskWeightSum(subtasks, FALSE)
    IN  IF totalSubtasks = 0
        THEN [completedWeight |-> IF task.completed THEN R(1) ELSE R(0),
              totalWeight |-> R(1),
              completedSubtasks |-> IF task.completed THEN 1 ELSE 0]
        ELSE IF totalSubtaskWeight < 0
        THEN [completedWeight |-> Frac(weightedCompletion, totalSubtaskWeight),
              totalWeight |-> R(1),
              completedSubtasks |-> completedSubtasks]
        ELSE [completedWeight |-> Frac(completedSubtasks, totalSubtasks),
              totalWeight |-> R(1),
              completedSubtasks |-> completedSubtasks]

calculateSubtaskContribution(task) ==
    LET subtasks == task.subTasks
        totalSubtasks == Len(subtasks)
        completedSubtasks == Cardinality({i \in 1..Len(subtasks) : subtasks[i].completed})
        weightedCompletion == SubtaskWeightSum(subtasks, TRUE)
        totalSubtaskWeight == SubtaskWeightSum(subtasks, FALSE)
    IN  IF totalSubtasks = 0
        THEN [completedWeight |-> IF task.completed THEN R(1) ELSE R(0),
              totalWeight |-> R(1),
              completedSubtasks |-> IF task.completed THEN 1 ELSE 0]
        ELSE IF totalSubtaskWeight > 0
        THEN [completedWeight |-> Frac(weightedCompletion, totalSubtaskWeight),
              totalWeight |-> R(1),
              completedSubtasks |-> completedSubtasks]
        ELSE [completedWeight |-> Frac(completedSubtasks, totalSubtasks),
              totalWeight |-> R(1),
              completedSubtasks |-> completedSubtasks]

(***************************************************************************)
(* RTP Calculator                                                          *)
(***************************************************************************)
\* The loop's accumulators as declared before the loop.
InitialSums ==
    [weightedCompletedSum |-> R(0),
     weightedTotalSum |-> R(0),
     totalEstimatedTime |-> 0,
     totalActualTime |-> 0,
     tasksWithAccurateEstimates |-> 0,
     totalTasks |-> 0,
     completedTasks |-> 0,
     blockedTasks |-> 0]

\* filterType "" is "no filter" (undefined and "" are both falsy).
skippedByFilter(task, filterType) == filterType # "" /\ task.type # filterType

\* Mutant of countsAsCompleted: the task's own flag is not consulted when it
\* has subtasks.
countsAsCompletedBySubtasksAlone(task) ==
    IF Len(task.subTasks) > 0
    THEN calculateSubtaskContribution(task).completedSubtasks = Len(task.subTasks)
    ELSE task.completed

\* The task counts in completedTasks.
countsAsCompleted(task) ==
    IF Len(task.subTasks) > 0
    THEN calculateSubtaskContribution(task).completedSubtasks = Len(task.subTasks) /\ task.completed
    ELSE task.completed

\* The iteration's body after the filter check.
processMatching(acc, task, u, t) ==
    LET dynamicWeight == calculateDynamicWeight(task, u, t)
        contribution == calculateSubtaskContribution(task)
        hasEstimate == task.estimatedMinutes # 0
        hasBoth == hasEstimate /\ task.actualMinutes # 0
        completedPart ==
            IF Len(task.subTasks) > 0 THEN RMul(dynamicWeight, contribution.completedWeight)
            ELSE IF task.completed THEN dynamicWeight ELSE R(0)
        totalPart ==
            IF Len(task.subTasks) > 0 THEN RMul(dynamicWeight, contribution.totalWeight)
            ELSE dynamicWeight
    IN  [weightedCompletedSum |-> RAdd(acc.weightedCompletedSum, completedPart),
         weightedTotalSum |-> RAdd(acc.weightedTotalSum, totalPart),
         totalEstimatedTime |->
             acc.totalEstimatedTime + (IF hasEstimate THEN task.estimatedMinutes ELSE 0),
         totalActualTime |-> acc.totalActualTime + (IF hasBoth THEN task.actualMinutes ELSE 0),
         tasksWithAccurateEstimates |-> acc.tasksWithAccurateEstimates + (IF hasBoth THEN 1 ELSE 0),
         totalTasks |-> acc.totalTasks + 1,
         completedTasks |-> acc.completedTasks + (IF countsAsCompleted(task) THEN 1 ELSE 0),
         blockedTasks |-> acc.blockedTasks + (IF task.blockedBy > 0 THEN 1 ELSE 0)]

\* Mutant of processTask: the blocked count is taken before the filter check.
processTaskBlockedFirst(acc, task, u, filterType, t) ==
    IF skippedByFilter(task, filterType)
    THEN [acc EXCEPT !.totalTasks = @ + 1,
                     !.blockedTasks = @ + (IF task.blockedBy > 0 THEN 1 ELSE 0)]
    ELSE processMatching(acc, task, u, t)

\* One iteration of filteredTasks.forEach: count, then skip on the filter.
processTask(acc, task, u, filterType, t) ==
    IF skippedByFilter(task, filterType)
    THEN [acc EXCEPT !.totalTasks = @ + 1]
    ELSE processMatching(acc, task, u, t)

RECURSIVE forEach(_, _, _, _, _)
forEach(acc, tasks, u, filterType, t) ==
    IF tasks = <<>> THEN acc
    ELSE forEach(processTask(acc, Head(tasks), u, filterType, t), Tail(tasks), u, filterType, t)

\* dateRange is <<>> (absent) or <<[start |-> s, end |-> e]>>.
inDateRange(task, dateRange) ==
    \/ Len(dateRange) = 0
    \/ /\ task.startDateTime >= dateRange[1].start
       /\ task.startDateTime <= dateRange[1].end

filteredTasks(u, dateRange) ==
    LET Keep(task) == inDateRange(task, dateRange)
    IN  SelectSeq(u.tasks, Keep)

\* The accumulators when the loop ends.
rtpSums(u, filterType, dateRange, t) ==
    forEach(InitialSums, filteredTasks(u, dateRange), u, filterType, t)

ZeroResult ==
    [percentage |-> R(0),
     score |-> R(0),
     metrics |-> [estimationAccuracy |-> R(0),
                  completionRate |-> R(0),
                  blockedTasksPercentage |-> R(0),
                  averageTaskWeight |-> R(0)]]

estimationAccuracy(acc) ==
    IF acc.tasksWithAccurateEstimates > 0
    THEN RMin(R(100),
              RSub(R(100),
                   RAbs(RMul(RDiv(R(acc.totalActualTime - acc.totalEstimatedTime),
                                  R(acc.totalEstimatedTime)), R(100)))))
    ELSE Null

\* The value returned past the zero guard.
rtpComputed(acc) ==
         [percentage |-> RMul(RDiv(acc.weightedCompletedSum, acc.weightedTotalSum), R(100)),
          score |-> RRound(acc.weightedCompletedSum),
          metrics |->
              [estimationAccuracy |-> estimationAccuracy(acc),
               completionRate |->
                   IF acc.totalTasks > 0
                   THEN RMul(Frac(acc.completedTasks, acc.totalTasks), R(100)) ELSE R(0),
               blockedTasksPercentage |->
                   IF acc.totalTasks > 0
                   THEN RMul(Frac(acc.blockedTasks, acc.totalTasks), R(100)) ELSE R(0),
               averageTaskWeight |->
                   IF acc.totalTasks > 0
                   THEN RDiv(acc.weightedTotalSum, R(acc.totalTasks)) ELSE R(0)]]

\* Mutant of rtpResult: no guard against a zero weightedTotalSum.
rtpResultUnguarded(acc) == rtpComputed(acc)

\* The value returned from the accumulators.
rtpResult(acc) == IF acc.weightedTotalSum = R(0) THEN ZeroResult ELSE rtpComputed(acc)

calculateRTP(u, filterType, dateRange, t) == rtpResult(rtpSums(u, filterType, dateRange, t))

(***************************************************************************)
(* The denominators of the divisions a call evaluates                      *)
(***************************************************************************)
\* calculateWorkloadMetrics divides by dailyCapacity.
workloadDenominators(u, t) == {R(calculateWorkloadMetrics(u, t).dailyCapacity)}

\* calculateDynamicWeight divides by the duration (in the branch taken), by
\* the sum of the preferences and, when a capacity is declared, calls
\* calculateWorkloadMetrics.
weightDenominators(task, u, t) ==
    LET timeRemaining == task.endDateTime - t
        totalTaskDuration == task.endDateTime - task.startDateTime
        preferences == IF Len(u.preferences.weightPreferences) > 0
                       THEN u.preferences.weightPreferences[1]
                       ELSE DefaultWeightPreferences
    IN  {RAdd(RAdd(preferences.priority, preferences.deadline), preferences.complexity)}
        \cup (IF timeRemaining > 0 /\ totalTaskDuration > 0 THEN {R(totalTaskDuration)} ELSE {})
        \cup (IF timeRemaining < 0
              THEN {R(IF totalTaskDuration # 0 THEN totalTaskDuration ELSE DAY)} ELSE {})
        \cup (IF u.preferences.workloadCapacity # 0 THEN workloadDenominators(u, t) ELSE {})

\* calculateSubtaskContribution divides by the subtasks' weight or number.
subtaskDenominators(task) ==
    IF Len(task.subTasks) = 0 THEN {}
    ELSE IF SubtaskWeightSum(task.subTasks, FALSE) > 0
    THEN {R(SubtaskWeightSum(task.subTasks, FALSE))}
    ELSE {R(Len(task.subTasks))}

\* calculateRTP: the divisions made for every processed task, then the ones
\* past the zero guard.
rtpDenominators(u, filterType, dateRange, t) ==
    LET tasks == filteredTasks(u, dateRange)
        processed == {i \in 1..Len(tasks) : ~skippedByFilter(tasks[i], filterType)}
        acc == rtpSums(u, filterType, dateRange, t)
    IN  UNION {weightDenominators(tasks[i], u, t) \cup subtaskDenominators(tasks[i]) :
                   i \in processed}
        \cup (IF acc.weightedTotalSum = R(0) THEN {}
              ELSE {acc.weightedTotalSum}
                   \cup (IF acc.tasksWithAccurateEstimates > 0
                         THEN {R(acc.totalEstimatedTime)} ELSE {})
                   \cup (IF acc.totalTasks > 0 THEN {R(acc.totalTasks)} ELSE {}))

(***************************************************************************)
(* Records of the data model (src/types/index.ts)                          *)
(***************************************************************************)
SubTask(completed, type, priority) ==
    [completed |-> completed, type |-> type, priority |-> priority]

Task(start, end, completed, type, priority, subTasks, blockedBy) ==
    [startDateTime |-> start,
     endDateTime |-> end,
     completed |-> completed,
     type |-> type,
     priority |-> priority,
     subTasks |-> subTasks,
     estimatedMinutes |-> 0,
     actualMinutes |-> 0,
     blockedBy |-> blockedBy,
     collaborators |-> 0]

\* user.preferences undefined: every optional field unset.
NoPreferences ==
    [weightPreferences |-> <<>>, productiveHours |-> <<>>, workloadCapacity |-> 0]

Capacity(c) == [NoPreferences EXCEPT !.workloadCapacity = c]

User(tasks, preferences) == [tasks |-> tasks, preferences |-> preferences]

SeqsUpTo(S, n) == UNION {[1..k -> S] : k \in 0..n}

\* Partial<Task> as the add-task form passes it to classifyTask: the text is
\* its length and the set of keywords it contains, the timestamps are absent
\* (<<>>, the empty string) or <<t>>.
PartialTask(descriptionLength, keywords, subTasks, start, end, collaborators, blockedBy, estimatedMinutes) ==
    [descriptionLength |-> descriptionLength,
     keywords |-> keywords,
     subTasks |-> subTasks,
     startDateTime |-> start,
     endDateTime |-> end,
     collaborators |-> collaborators,
     blockedBy |-> blockedBy,
     estimatedMinutes |-> estimatedMinutes]

\* The form's subtasks as handleSubmit passes them.
FormSubTasks(n) == [i \in 1..n |-> SubTask(FALSE, "", 0)]

BlankForm == PartialTask(0, {}, <<>>, <<>>, <<>>, 0, 0, 0)

(***************************************************************************)
(* Task Classifier                                                         *)
(***************************************************************************)
highPriorityKeywords ==
    {"urgent", "critical", "important", "deadline", "priority", "asap", "emergency", "crucial"}

midPriorityKeywords ==
    {"review", "update", "prepare", "meeting", "report", "develop", "implement", "analyze"}

lowPriorityKeywords ==
    {"check", "read", "reminder", "routine", "daily", "follow-up", "monitor", "maintain"}

\* One contribution to the scores: points for one tier.
Points(tier, n) == [LOW |-> IF tier = "LOW" THEN n ELSE 0,
                    MID |-> IF tier = "MID" THEN n ELSE 0,
                    HIGH |-> IF tier = "HIGH" THEN n ELSE 0]

NoPoints == Points("LOW", 0)

AddPoints(a, b) == [LOW |-> a.LOW + b.LOW, MID |-> a.MID + b.MID, HIGH |-> a.HIGH + b.HIGH]

\* Mutant of descriptionPoints: a short description scores nothing.
descriptionPointsNoneForShort(task) ==
    IF task.descriptionLength > 300 THEN Points("HIGH", 3)
    ELSE IF task.descriptionLength > 150 THEN Points("HIGH", 2)
    ELSE IF task.descriptionLength > 80 THEN Points("MID", 2)
    ELSE NoPoints

\* Rule 1.
descriptionPoints(task) ==
    IF task.descriptionLength > 300 THEN Points("HIGH", 3)
    ELSE IF task.descriptionLength > 150 THEN Points("HIGH", 2)
    ELSE IF task.descriptionLength > 80 THEN Points("MID", 2)
    ELSE Points("LOW", 1)

\* Rule 2.
subtaskPoints(task) ==
    LET subtaskCount == Len(task.subTasks)
    IN  IF subtaskCount > 5 THEN Points("HIGH", 4)
        ELSE IF subtaskCount > 3 THEN Points("HIGH", 3)
        ELSE IF subtaskCount > 0 THEN Points("MID", 2)
        ELSE Points("LOW", 1)

\* Mutant of durationPoints: a draft without dates counts as a short one.
durationPointsWithoutDates(task) ==
    IF Len(task.startDateTime) > 0 /\ Len(task.endDateTime) > 0
    THEN LET durationHours == task.endDateTime[1] - task.startDateTime[1]
         IN  IF durationHours > 24 THEN Points("HIGH", 3)
             ELSE IF durationHours > 8 THEN Points("HIGH", 2)
             ELSE IF durationHours > 2 THEN Points("MID", 2)
             ELSE Points("LOW", 2)
    ELSE Points("LOW", 2)

\* Rule 3: durationHours = end - start, compared without rounding.
durationPoints(task) ==
    IF Len(task.startDateTime) > 0 /\ Len(task.endDateTime) > 0
    THEN LET durationHours == task.endDateTime[1] - task.startDateTime[1]
         IN  IF durationHours > 24 THEN Points("HIGH", 3)
             ELSE IF durationHours > 8 THEN Points("HIGH", 2)
             ELSE IF durationHours > 2 THEN Points("MID", 2)
             ELSE Points("LOW", 2)
    ELSE NoPoints

\* Rule 4: a point for each keyword the text includes.
keywordPoints(task) ==
    [LOW |-> Cardinality(task.keywords \cap lowPriorityKeywords),
     MID |-> Cardinality(task.keywords \cap midPriorityKeywords),
     HIGH |-> Cardinality(task.keywords \cap highPriorityKeywords)]

\* Rule 5.
collaboratorPoints(task) ==
    IF task.collaborators > 2 THEN Points("HIGH", 2)
    ELSE IF task.collaborators > 0 THEN Points("MID", 1)
    ELSE NoPoints

\* Rule 6.
blockedPoints(task) == IF task.blockedBy > 0 THEN Points("MID", 1) ELSE NoPoints

\* Rule 7.
estimatePoints(task) ==
    IF task.estimatedMinutes # 0
    THEN IF task.estimatedMinutes > 240 THEN Points("HIGH", 2)
         ELSE IF task.estimatedMinutes > 60 THEN Points("MID", 2)
         ELSE Points("LOW", 1)
    ELSE NoPoints

\* The three raw scores after the seven rules.
classifyScores(task) ==
    AddPoints(descriptionPoints(task),
    AddPoints(subtaskPoints(task),
    AddPoints(durationPoints(task),
    AddPoints(keywordPoints(task),
    AddPoints(collaboratorPoints(task),
    AddPoints(blockedPoints(task), estimatePoints(task)))))))

\* Mutant of taskTypeOf: HIGH is compared with MID only.
taskTypeOfHighOverMid(scores) ==
    IF scores.HIGH > scores.MID THEN "HIGH"
    ELSE IF scores.MID > scores.LOW THEN "MID"
    ELSE "LOW"

\* Mutant of taskTypeOf: a tie at the top goes to the higher tier.
taskTypeOfTiesUp(scores) ==
    IF scores.HIGH >= scores.MID /\ scores.HIGH >= scores.LOW THEN "HIGH"
    ELSE IF scores.MID >= scores.LOW THEN "MID"
    ELSE "LOW"

\* The tier with the highest score.
taskTypeOf(scores) ==
    IF scores.HIGH > scores.MID /\ scores.HIGH > scores.LOW THEN "HIGH"
    ELSE IF scores.MID > scores.LOW THEN "MID"
    ELSE "LOW"

\* Mutant of priorityOf: the scaled score is truncated, not rounded.
priorityOfTruncated(scores) ==
    LET totalScore == scores.LOW + scores.MID + scores.HIGH
        truncated == ((scores.HIGH * 3 + scores.MID * 2 + scores.LOW) * 3)
                         \div (IF totalScore # 0 THEN totalScore ELSE 1)
    IN  IF truncated > 10 THEN 10 ELSE IF truncated < 1 THEN 1 ELSE truncated

\* The priority on the scale 1-10.
priorityOf(scores) ==
    LET totalScore == scores.LOW + scores.MID + scores.HIGH
        weightedScore == Frac(scores.HIGH * 3 + scores.MID * 2 + scores.LOW,
                              IF totalScore # 0 THEN totalScore ELSE 1)
        rounded == RRound(RMul(weightedScore, R(3)))[1]
    IN  IF rounded > 10 THEN 10 ELSE IF rounded < 1 THEN 1 ELSE rounded

\* Mutant of classifyTask: the duration is measured from the current time.
classifyTaskFromNow(task) ==
    LET seen == IF Len(task.startDateTime) > 0
                THEN [task EXCEPT !.startDateTime = <<now>>] ELSE task
    IN  [type |-> taskTypeOf(classifyScores(seen)), priority |-> priorityOf(classifyScores(seen))]

classifyTask(task) ==
    [type |-> taskTypeOf(classifyScores(task)), priority |-> priorityOf(classifyScores(task))]

(***************************************************************************)
(* Calls of calculateRTP as the dashboard makes them: any tier filter, and *)
(* the range {today 00:00, tomorrow 00:00}.                                *)
(***************************************************************************)
MaxTasks == 2

StartOfDay(t) == (t \div DAY) * DAY

Today(t) == <<[start |-> StartOfDay(t), end |-> StartOfDay(t) + DAY]>>

\* Yesterday's task, today's task, an hour's task that starts tomorrow 00:00,
\* and (the form does not compare the two) an end an hour before the start.
RTPTimings == {<<96, 120>>, <<120, 144>>, <<144, 145>>, <<120, 119>>}

RTPTasks ==
    {Task(tm[1], tm[2], c, "LOW", 0, <<>>, 0) : tm \in RTPTimings, c \in BOOLEAN}
    \cup {Task(120, 144, c, ty, 0, <<>>, b) : c \in BOOLEAN, ty \in {"LOW", "HIGH"}, b \in {0, 1}}
    \cup {Task(120, 144, c, "LOW", 0, subs, 0) :
              c \in BOOLEAN,
              subs \in {<<SubTask(TRUE, "LOW", 0)>>,
                        <<SubTask(TRUE, "HIGH", 0), SubTask(FALSE, "LOW", 0)>>}}

RTPUsers ==
    {User(ts, p) : ts \in SeqsUpTo(RTPTasks, MaxTasks), p \in {NoPreferences, Capacity(1)}}

Init ==
    /\ user \in RTPUsers
    /\ now = 130
    /\ call = [fn |-> "none"]
    /\ ret = <<>>
    /\ locals = <<>>
    /\ form = BlankForm
    /\ log = <<>>

\* One render: the component calls, shows the result, and is idle again.
Idle == call.fn = "none"

Return ==
    /\ ~Idle
    /\ call' = [fn |-> "none"]
    /\ ret' = <<>>
    /\ locals' = <<>>
    /\ UNCHANGED <<user, now, form, log>>

\* Mutant of CallCalculateRTP: the date range is applied to the user's own list.
CallCalculateRTPFilteringInPlace(filterType, dateRange) ==
    /\ Idle
    /\ call' = [fn |-> "calculateRTP", filterType |-> filterType, dateRange |-> dateRange]
    /\ ret' = calculateRTP(user, filterType, dateRange, now)
    /\ locals' = rtpSums(user, filterType, dateRange, now)
    /\ user' = [user EXCEPT !.tasks = filteredTasks(user, dateRange)]
    /\ UNCHANGED <<now, form, log>>

CallCalculateRTP(filterType, dateRange) ==
    /\ Idle
    /\ call' = [fn |-> "calculateRTP", filterType |-> filterType, dateRange |-> dateRange]
    /\ ret' = calculateRTP(user, filterType, dateRange, now)
    /\ locals' = rtpSums(user, filterType, dateRange, now)
    /\ UNCHANGED <<user, now, form, log>>

CallsOfCalculateRTP ==
    \E filterType \in {"", "LOW", "MID", "HIGH"}, dateRange \in {<<>>, Today(now)} :
        CallCalculateRTP(filterType, dateRange)

Next == CallsOfCalculateRTP \/ Return

Spec == Init /\ [][Next]_vars

(***************************************************************************)
(* Claims about calculateRTP, stated on a finished call: call holds the    *)
(* arguments, ret the returned value, locals the loop's accumulators.      *)
(***************************************************************************)
CalledRTP == call.fn = "calculateRTP"

TaskIds == 1..Len(user.tasks)

\* The task passes the tier filter of the call.
MatchesFilter(i) == call.filterType = "" \/ user.tasks[i].type = call.filterType

\* start <= t <= end, or no range.
InRangeClosed(i) ==
    \/ Len(call.dateRange) = 0
    \/ /\ call.dateRange[1].start <= user.tasks[i].startDateTime
       /\ user.tasks[i].startDateTime <= call.dateRange[1].end

\* start <= t < end, or no range.
InRangeHalfOpen(i) ==
    \/ Len(call.dateRange) = 0
    \/ /\ call.dateRange[1].start <= user.tasks[i].startDateTime
       /\ user.tasks[i].startDateTime < call.dateRange[1].end

IsBlocked(i) == user.tasks[i].blockedBy > 0

\* C1: whenever weightedTotalSum is not zero, the returned percentage lies
\* in [0, 100].
C1_PercentageInRange ==
    (CalledRTP /\ locals.weightedTotalSum # R(0))
        => RLe(R(0), ret.percentage) /\ RLe(ret.percentage, R(100))

\* C2: with no task, or no task left by the date range and the tier filter
\* (weightedTotalSum = 0), the result is percentage 0, score 0 and four zero
\* metrics, all finite.
C2_ZeroResultWhenNothingEligible ==
    (/\ CalledRTP
     /\ \/ \A i \in TaskIds : ~(InRangeClosed(i) /\ MatchesFilter(i))
        \/ locals.weightedTotalSum = R(0))
        => /\ ret.percentage = R(0)
           /\ ret.score = R(0)
           /\ ret.metrics.estimationAccuracy = R(0)
           /\ ret.metrics.completionRate = R(0)
           /\ ret.metrics.blockedTasksPercentage = R(0)
           /\ ret.metrics.averageTaskWeight = R(0)

\* C2 witness: a user with tasks, none of the filtered tier: the loop counted
\* them and the call returned the zero result.
C2_Witness ==
    /\ CalledRTP
    /\ call.filterType = "MID"
    /\ locals.totalTasks = 2
    /\ locals.weightedTotalSum = R(0)
    /\ ret.metrics.completionRate = R(0)

\* C3 as claimed: under a tier filter both totalTasks and the blocked count
\* cover every task of the range, matching or not.
C3_BothCountsBeforeFilter ==
    (CalledRTP /\ call.filterType # "")
        => /\ locals.totalTasks = Cardinality({i \in TaskIds : InRangeClosed(i)})
           /\ locals.blockedTasks =
                  Cardinality({i \in TaskIds : InRangeClosed(i) /\ IsBlocked(i)})

\* C3 amended: a task of another tier is counted in totalTasks only; the
\* blocked count and the weighted sums cover the matching tasks alone.
C3_OnlyTotalTasksBeforeFilter ==
    CalledRTP
        => LET Matching(task) == inDateRange(task, call.dateRange)
                                 /\ (call.filterType = "" \/ task.type = call.filterType)
               alone == forEach(InitialSums, SelectSeq(user.tasks, Matching), user, "", now)
           IN  /\ locals.totalTasks = Cardinality({i \in TaskIds : InRangeClosed(i)})
               /\ locals.blockedTasks =
                      Cardinality({i \in TaskIds :
                                       InRangeClosed(i) /\ MatchesFilter(i) /\ IsBlocked(i)})
               /\ locals.weightedTotalSum = alone.weightedTotalSum
               /\ locals.weightedCompletedSum = alone.weightedCompletedSum

\* C3 witness: a HIGH filter over a blocked LOW task and a HIGH task: two
\* tasks counted, none blocked.
C3_Witness ==
    /\ CalledRTP
    /\ call.filterType = "HIGH"
    /\ \E i, j \in TaskIds :
           /\ user.tasks[i].type = "LOW" /\ IsBlocked(i)
           /\ user.tasks[j].type = "HIGH" /\ ~IsBlocked(j)
    /\ locals.totalTasks = 2
    /\ locals.blockedTasks = 0
    /\ locals.weightedTotalSum # R(0)

\* C4: with a date range the processed tasks are exactly those that start
\* in [start, end).
C4_HalfOpenDateRange ==
    (CalledRTP /\ Len(call.dateRange) > 0)
        => locals.totalTasks = Cardinality({i \in TaskIds : InRangeHalfOpen(i)})

\* The task is complete for the completion rate.
C5_Complete(task) ==
    \/ Len(task.subTasks) = 0 /\ task.completed
    \/ /\ Len(task.subTasks) > 0
       /\ \A k \in 1..Len(task.subTasks) : task.subTasks[k].completed
       /\ task.completed

\* Every subtask done, or no subtask and the task done.
C5_FullyDone(task) ==
    IF Len(task.subTasks) = 0 THEN task.completed
    ELSE \A k \in 1..Len(task.subTasks) : task.subTasks[k].completed

MaxLoadTasks == 7

\* Due tomorrow 00:00 (open or completed), or the day after tomorrow 02:00.
LoadTasks ==
    {Task(120, 144, FALSE, "LOW", 0, <<>>, 0),
     Task(120, 144, TRUE, "LOW", 0, <<>>, 0),
     Task(146, 170, FALSE, "LOW", 0, <<>>, 0)}

LoadUsers ==
    {User(ts, p) : ts \in SeqsUpTo(LoadTasks, MaxLoadTasks), p \in {NoPreferences, Capacity(5)}}

InitLoad ==
    /\ user \in LoadUsers
    /\ now \in {130, 150}
    /\ call = [fn |-> "none"]
    /\ ret = <<>>
    /\ locals = <<>>
    /\ form = BlankForm
    /\ log = <<>>

CallCalculateWorkloadMetrics ==
    /\ Idle
    /\ call' = [fn |-> "calculateWorkloadMetrics"]
    /\ ret' = calculateWorkloadMetrics(user, now)
    /\ locals' = <<>>
    /\ UNCHANGED <<user, now, form, log>>

CallCalculateDynamicWeight(i) ==
    /\ Idle
    /\ call' = [fn |-> "calculateDynamicWeight", task |-> user.tasks[i]]
    /\ ret' = calculateDynamicWeight(user.tasks[i], user, now)
    /\ locals' = <<>>
    /\ UNCHANGED <<user, now, form, log>>

CallsOfCalculateDynamicWeight == \E i \in 1..Len(user.tasks) : CallCalculateDynamicWeight(i)

NextLoad == CallCalculateWorkloadMetrics \/ CallsOfCalculateDynamicWeight \/ Return

SpecLoad == InitLoad /\ [][NextLoad]_vars

CalledWorkload == call.fn = "calculateWorkloadMetrics"

CalledDynamicWeight == call.fn = "calculateDynamicWeight"

\* What calculateWorkloadMetrics reports for the user now.
ReportedOverload == RLt(R(1), calculateWorkloadMetrics(user, now).overloadFactor)

\* The weight before the workload adjustment.
PreAdjustment == productiveAdjusted(call.task, user, now)

\* C6 as claimed: whenever the reported overloadFactor exceeds 1, the weight
\* returned for a task of the user is the pre-adjustment weight to the power 1.2.
C6_OverloadAlwaysRaises ==
    (CalledDynamicWeight /\ ReportedOverload) => ret = Pow12(PreAdjustment)

\* C6 amended: the power 1.2 is applied exactly when the user declares a
\* (non-zero) workload capacity and the reported overloadFactor exceeds 1;
\* without a declared capacity the weight is returned as it is.
C6_OverloadRaisesWhenCapacityDeclared ==
    CalledDynamicWeight
        => ret = IF user.preferences.workloadCapacity # 0 /\ ReportedOverload
                 THEN Pow12(PreAdjustment)
                 ELSE PreAdjustment

\* C6 witness: capacity 5 declared, more than five open tasks due: the weight
\* returned is the raised one, and differs from the weight before.
C6_Witness ==
    /\ CalledDynamicWeight
    /\ user.preferences.workloadCapacity = 5
    /\ ReportedOverload
    /\ ret = Pow12(PreAdjustment)
    /\ ret # PreAdjustment

\* The daily capacity c of the claim: 5 when unset.
C7_Capacity ==
    IF user.preferences.workloadCapacity = 0 THEN 5 ELSE user.preferences.workloadCapacity

IsOpen(i) == ~user.tasks[i].completed

\* C7 as claimed: with n open tasks due within the 2 days after now and no
\* open task due earlier, currentLoad = n and overloadFactor = n / c.
C7_LoadWithinTwoDays ==
    LET within == {i \in TaskIds : IsOpen(i) /\ now < user.tasks[i].endDateTime
                                   /\ user.tasks[i].endDateTime <= now + 2 * DAY}
        earlier == {i \in TaskIds : IsOpen(i) /\ user.tasks[i].endDateTime <= now}
    IN  (CalledWorkload /\ earlier = {})
            => /\ ret.currentLoad = Cardinality(within)
               /\ ret.overloadFactor = Frac(Cardinality(within), C7_Capacity)

\* C7 amended: with n the number of open tasks whose deadline is on or
\* before tomorrow's calendar day (overdue ones included), currentLoad = n
\* and overloadFactor = n / c exactly, c being 5 when the capacity is unset;
\* n = 7 and c = 5 give 1.4.
C7_LoadDueByTomorrow ==
    LET due == {i \in TaskIds : IsOpen(i)
                                /\ user.tasks[i].endDateTime \div DAY <= (now \div DAY) + 1}
        n == Cardinality(due)
    IN  CalledWorkload
            => /\ ret.currentLoad = n
               /\ ret.dailyCapacity = C7_Capacity
               /\ ret.overloadFactor = Frac(n, C7_Capacity)
               /\ (n = 7 /\ C7_Capacity = 5) => ret.overloadFactor = Frac(14, 10)

\* C7 witness: no capacity set and seven open tasks due by tomorrow: the
\* load is 7 and the factor 1.4.
C7_Witness ==
    /\ CalledWorkload
    /\ user.preferences.workloadCapacity = 0
    /\ Len(user.tasks) = 7
    /\ ret.currentLoad = 7
    /\ ret.overloadFactor = Frac(14, 10)

(***************************************************************************)
(* Weight Model: calculateDynamicWeight on one task of a user, the other   *)
(* tasks of the user adding to the load.                                   *)
(***************************************************************************)
MaxFillers == 1

\* Overdue, running, an hour's task that starts tomorrow, ending an hour
\* before the start, of no duration, a hundred days long, and an hour's
\* task of yesterday.
WeightTimings ==
    {<<96, 120>>, <<120, 144>>, <<144, 145>>, <<120, 119>>, <<120, 120>>, <<-2256, 144>>,
     <<100, 101>>}

WeightTasks ==
    {[Task(tm[1], tm[2], FALSE, "MID", p, subs, 0) EXCEPT !.collaborators = c] :
         tm \in WeightTimings,
         p \in {0, 1, 5, 10},
         subs \in {<<>>, <<SubTask(TRUE, "LOW", 0), SubTask(FALSE, "HIGH", 0)>>},
         c \in {0, 3}}

WeightPreferences ==
    {NoPreferences,
     Capacity(1),
     [weightPreferences |->
          <<[deadline |-> Frac(8, 10), priority |-> Frac(1, 10), complexity |-> Frac(1, 10)]>>,
      productiveHours |-> <<[start |-> 9, end |-> 12]>>,
      workloadCapacity |-> 1]}

WeightUsers ==
    {User(<<t>> \o fill, p) :
         t \in WeightTasks,
         fill \in SeqsUpTo({Task(120, 144, FALSE, "LOW", 0, <<>>, 0)}, MaxFillers),
         p \in WeightPreferences}

InitWeight ==
    /\ user \in WeightUsers
    /\ now \in {130, 134}
    /\ call = [fn |-> "none"]
    /\ ret = <<>>
    /\ locals = <<>>
    /\ form = BlankForm
    /\ log = <<>>

NextWeight == CallsOfCalculateDynamicWeight \/ Return

SpecWeight == InitWeight /\ [][NextWeight]_vars

\* C8: raising the explicit priority of the task, all else equal, never
\* lowers the weight returned for it.
C8_PriorityMonotone ==
    (CalledDynamicWeight /\ call.task.priority >= 1)
        => \A p \in 1..10 :
               p > call.task.priority
                   => RLe(ret, calculateDynamicWeight([call.task EXCEPT !.priority = p], user, now))

\* The weight a user without preferences gets for the called task when the
\* urgency factor is u: base * (0.4 + 0.4 * u + 0.2 * complexity).
WeightWithUrgency(u) ==
    RMul(R(getPriorityWeight(call.task.priority, call.task.type)),
         RAdd(RAdd(Frac(4, 10), RMul(Frac(4, 10), u)),
              RMul(Frac(2, 10), complexityFactor(call.task))))

\* The called task is overdue.
IsOverdue == call.task.endDateTime < now

\* min(3, 1 + |timeOverdue| / totalDuration), a day for a duration of zero.
OverdueMultiplier ==
    LET totalDuration == call.task.endDateTime - call.task.startDateTime
        ratio == Frac(now - call.task.endDateTime, IF totalDuration = 0 THEN DAY ELSE totalDuration)
    IN  IF RLt(R(2), ratio) THEN R(3) ELSE RAdd(R(1), ratio)

\* C16: for an overdue task the urgency factor is
\* min(3, 1 + |timeOverdue| / totalDuration), with one day as the denominator
\* when the duration is zero; it is at most 3, and it is the factor the
\* returned weight is built from.
C16_OverdueCap ==
    (CalledDynamicWeight /\ IsOverdue)
        => /\ urgencyFactor(call.task, now) = OverdueMultiplier
           /\ RLe(urgencyFactor(call.task, now), R(3))
           /\ user.preferences = NoPreferences => ret = WeightWithUrgency(OverdueMultiplier)

\* C16 witness: an hour's task overdue by more than a day: the factor is 3
\* and the weight of the user without preferences is built from it.
C16_Witness ==
    /\ CalledDynamicWeight
    /\ call.task.startDateTime = 100
    /\ call.task.endDateTime = 101
    /\ user.preferences = NoPreferences
    /\ urgencyFactor(call.task, now) = R(3)
    /\ ret = WeightWithUrgency(R(3))

\* The called task is not yet due and has a positive duration.
IsPending ==
    /\ call.task.endDateTime > now
    /\ call.task.endDateTime > call.task.startDateTime

\* max(1, log10 of the duration in days).
DurationFactor ==
    RMax(R(1), Log10(Frac(call.task.endDateTime - call.task.startDateTime, DAY)))

\* C17: for a task not yet due and of positive duration, the urgency factor
\* lies between 1 and 1 + 0.5 * durationFactor, and at no later time before
\* the deadline is it lower than now.
C17_UrgencyRises ==
    (CalledDynamicWeight /\ IsPending)
        => /\ RLe(R(1), urgencyFactor(call.task, now))
           /\ RLe(urgencyFactor(call.task, now), RAdd(R(1), RMul(Frac(1, 2), DurationFactor)))
           /\ \A later \in now..(call.task.endDateTime - 1) :
                  RLe(urgencyFactor(call.task, now), urgencyFactor(call.task, later))

\* The weight preferences in force for the user: the declared or the default.
PreferencesInForce ==
    IF Len(user.preferences.weightPreferences) > 0
    THEN user.preferences.weightPreferences[1]
    ELSE DefaultWeightPreferences

\* The user with the three weight preferences in force multiplied by k.
UserScaledBy(k) ==
    [user EXCEPT !.preferences.weightPreferences =
         <<[deadline |-> RMul(k, PreferencesInForce.deadline),
            priority |-> RMul(k, PreferencesInForce.priority),
            complexity |-> RMul(k, PreferencesInForce.complexity)]>>]

\* C18: the weight returned is the one returned for the same user with the
\* three weight preferences multiplied by a positive constant (1 stands for
\* writing the default ratios out when none are declared).
C18_ScaleInvariant ==
    CalledDynamicWeight
        => \A k \in {Frac(1, 2), R(1), R(2), R(10)} :
               calculateDynamicWeight(call.task, UserScaledBy(k), now) = ret

\* C18 witness: ratios that matter to the weight are declared, and the
\* weight returned is the one for ten times the ratios, which sum to 10.
C18_Witness ==
    /\ CalledDynamicWeight
    /\ Len(user.preferences.weightPreferences) = 1
    /\ ret = calculateDynamicWeight(call.task, UserScaledBy(R(10)), now)
    /\ ret # calculateDynamicWeight(call.task,
                                    [user EXCEPT !.preferences.weightPreferences = <<>>], now)
    /\ IsFinite(ret)

\* The open tasks of u due on tomorrow's calendar day or before.
DueByTomorrowOf(u) ==
    {i \in 1..Len(u.tasks) :
         ~u.tasks[i].completed /\ u.tasks[i].endDateTime \div DAY <= (now \div DAY) + 1}

\* The current hour lies in a declared window [start, end).
InProductiveHours ==
    \E w \in {user.preferences.productiveHours[i] : i \in 1..Len(user.preferences.productiveHours)} :
        w.start <= now % DAY /\ now % DAY < w.end

\* The user is overloaded: the load exceeds the declared capacity.
IsOverloaded ==
    /\ user.preferences.workloadCapacity > 0
    /\ Cardinality(DueByTomorrowOf(user)) > user.preferences.workloadCapacity

\* C22: the boost for productive hours comes first, the power for overload
\* second: both give (weightedAverage * 1.1) to the power 1.2, one alone
\* gives that adjustment alone, neither gives the weighted average.
C22_AdjustmentOrder ==
    LET average == weightedAverage(call.task, user, now)
    IN  CalledDynamicWeight
            => ret = IF InProductiveHours /\ IsOverloaded
                     THEN Pow12(RMul(average, Frac(11, 10)))
                     ELSE IF InProductiveHours THEN RMul(average, Frac(11, 10))
                     ELSE IF IsOverloaded THEN Pow12(average)
                     ELSE average

\* C22 witness: at 10:00, within the window 9-12, with two tasks due and a
\* capacity of 1: the weight is the boosted average to the power 1.2, which
\* is not the boosted power of the average.
C22_Witness ==
    /\ CalledDynamicWeight
    /\ InProductiveHours
    /\ IsOverloaded
    /\ IsFinite(ret)
    /\ ret = Pow12(RMul(weightedAverage(call.task, user, now), Frac(11, 10)))
    /\ ret # RMul(Pow12(weightedAverage(call.task, user, now)), Frac(11, 10))

\* C29: the weight returned for a task is a number above zero, whatever the
\* task's timestamps and the current time, the weight preferences being
\* positive.
C29_PositiveWeight ==
    (CalledDynamicWeight
        /\ FiniteLt(R(0), PreferencesInForce.priority)
        /\ FiniteLt(R(0), PreferencesInForce.deadline)
        /\ FiniteLt(R(0), PreferencesInForce.complexity))
        => IsFinite(ret) /\ FiniteLt(R(0), ret)

(***************************************************************************)
(* Task Classifier: classifyTask applied to drafts of every shape.         *)
(***************************************************************************)
MaxCalls == 3

\* Descriptions on either side of 80, 150 and 300 characters, and of 400.
ClassifyLengths == {0, 81, 151, 301, 400}

ClassifyKeywordSets ==
    {{}, {"urgent"}, {"review"}, {"check"}, {"urgent", "review", "check"}}

\* No dates, or 2, 3, 9, 25 and 30 hours long.
ClassifyTimings ==
    {<<<<>>, <<>>>>, <<<<0>>, <<2>>>>, <<<<0>>, <<3>>>>, <<<<0>>, <<9>>>>, <<<<0>>, <<25>>>>,
     <<<<0>>, <<30>>>>}

ClassifyForms ==
    {PartialTask(d, k, FormSubTasks(n), tm[1], tm[2], c, b, e) :
         d \in ClassifyLengths,
         k \in ClassifyKeywordSets,
         n \in {0, 1, 4, 6},
         tm \in ClassifyTimings,
         c \in {0, 1, 3},
         b \in {0, 1},
         e \in {0, 60, 61, 241}}

\* Nobody's tasks matter to the classifier: one user with one task.
ClassifyUser == User(<<Task(0, 2, FALSE, "LOW", 0, <<>>, 0)>>, NoPreferences)

InitClassify ==
    /\ user = ClassifyUser
    /\ now = 0
    /\ form \in ClassifyForms
    /\ call = [fn |-> "none"]
    /\ ret = <<>>
    /\ locals = <<>>
    /\ log = <<>>

\* A call classifyTask(form); the log keeps what was asked, when, and the answer.
CallClassifyTask ==
    /\ Idle
    /\ Len(log) < MaxCalls
    /\ call' = [fn |-> "classifyTask", task |-> form]
    /\ ret' = classifyTask(form)
    /\ locals' = classifyScores(form)
    /\ log' = Append(log, [task |-> form, at |-> now, ret |-> classifyTask(form)])
    /\ UNCHANGED <<user, now, form>>

NextClassify == CallClassifyTask \/ Return

SpecClassify == InitClassify /\ [][NextClassify]_vars

CalledClassify == call.fn = "classifyTask"

\* C10: the tier is HIGH exactly when the HIGH score is strictly above both
\* others, otherwise MID exactly when the MID score is strictly above the LOW
\* score, otherwise LOW: LOW wins every remaining tie.
C10_TierSelection ==
    CalledClassify
        => LET high == locals.HIGH
               mid == locals.MID
               low == locals.LOW
               highWins == high > mid /\ high > low
           IN  /\ ret.type \in {"LOW", "MID", "HIGH"}
               /\ ret.type = "HIGH" <=> highWins
               /\ ret.type = "MID" <=> (~highWins /\ mid > low)
               /\ (high = low /\ low > mid) => ret.type = "LOW"
               /\ (mid = low /\ low >= high) => ret.type = "LOW"
               /\ (high = mid /\ mid > low) => ret.type = "MID"

\* C10 witness: HIGH and LOW tie above MID, and the tier is LOW.
C10_Witness ==
    /\ CalledClassify
    /\ locals.HIGH = locals.LOW
    /\ locals.LOW > locals.MID
    /\ locals.HIGH > 0
    /\ ret.type = "LOW"

\* The draft of the scenario: 400 characters, 6 subtasks, 30 hours, nothing else.
C11_Scenario == PartialTask(400, {}, FormSubTasks(6), <<0>>, <<30>>, 0, 0, 0)

\* C11: the priority is 3 * (3*HIGH + 2*MID + LOW) / S rounded to the nearest
\* integer (halves upwards) and clamped to 1..10, S being the sum of the
\* scores (1 when the sum is 0); the scenario's draft scores HIGH = 10,
\* MID = 0, LOW = 0 and is classified HIGH with priority 9.
C11_Priority ==
    CalledClassify
        => LET sum == locals.HIGH + locals.MID + locals.LOW
               S == IF sum = 0 THEN 1 ELSE sum
               n == 3 * locals.HIGH + 2 * locals.MID + locals.LOW
               nearest == (6 * n + S) \div (2 * S)
           IN  /\ ret.priority = IF nearest < 1 THEN 1 ELSE IF nearest > 10 THEN 10 ELSE nearest
               /\ call.task = C11_Scenario
                      => /\ locals = [HIGH |-> 10, MID |-> 0, LOW |-> 0]
                         /\ ret = [type |-> "HIGH", priority |-> 9]

\* C11 witness: the scenario's draft has been classified HIGH with priority 9.
C11_Witness ==
    /\ CalledClassify
    /\ call.task = C11_Scenario
    /\ locals.HIGH = 10
    /\ ret.priority = 9

(***************************************************************************)
(* Task Classifier over time: the draft is edited, the clock advances,     *)
(* other calls are made, and every classification is logged.               *)
(***************************************************************************)
MaxClock == 2

\* With or without dates (three hours), with a short or a long description.
LogForms ==
    {PartialTask(d, {}, <<>>, tm[1], tm[2], 0, 0, 0) :
         d \in {0, 301}, tm \in {<<<<>>, <<>>>>, <<<<0>>, <<3>>>>}}

InitClassifyLog ==
    /\ user = ClassifyUser
    /\ now = 0
    /\ form \in LogForms
    /\ call = [fn |-> "none"]
    /\ ret = <<>>
    /\ locals = <<>>
    /\ log = <<>>

\* The draft's fields are set to other values.
EditForm ==
    /\ Idle
    /\ form' \in LogForms \ {form}
    /\ UNCHANGED <<user, now, call, ret, locals, log>>

\* An hour passes.
Tick ==
    /\ now < MaxClock
    /\ now' = now + 1
    /\ UNCHANGED <<user, form, call, ret, locals, log>>

NextClassifyLog ==
    \/ CallClassifyTask
    \/ CallCalculateWorkloadMetrics
    \/ EditForm
    \/ Tick
    \/ Return

SpecClassifyLog == InitClassifyLog /\ [][NextClassifyLog]_vars

MaxGuardTasks == 2

\* Preferences that give the three factors the weight 0 (each ratio is a
\* number of [0,1]).
ZeroWeights ==
    [NoPreferences EXCEPT
         !.weightPreferences = <<[deadline |-> R(0), priority |-> R(0), complexity |-> R(0)]>>]

\* Running or overdue without duration; open or completed; without estimate,
\* estimated only, estimated and measured; one with a completed subtask.
GuardTasks ==
    {[Task(tm[1], tm[2], c, "LOW", 0, <<>>, 0) EXCEPT !.estimatedMinutes = e[1],
                                                       !.actualMinutes = e[2]] :
         tm \in {<<120, 144>>, <<120, 120>>},
         c \in BOOLEAN,
         e \in {<<0, 0>>, <<60, 0>>, <<60, 30>>}}
    \cup {Task(120, 144, FALSE, "LOW", 0, <<SubTask(TRUE, "", 0)>>, 0)}

GuardUsers ==
    {User(ts, p) : ts \in SeqsUpTo(GuardTasks, MaxGuardTasks),
                   p \in {NoPreferences, Capacity(1), ZeroWeights}}

InitGuards ==
    /\ user \in GuardUsers
    /\ now = 130
    /\ call = [fn |-> "none"]
    /\ ret = <<>>
    /\ locals = <<>>
    /\ form = BlankForm
    /\ log = <<>>

NextGuards == CallsOfCalculateRTP \/ CallCalculateWorkloadMetrics \/ Return

SpecGuards == InitGuards /\ [][NextGuards]_vars

\* The numbers calculateRTP returned.
ReturnedByRTP ==
    {ret.percentage, ret.score, ret.metrics.estimationAccuracy, ret.metrics.completionRate,
     ret.metrics.blockedTasksPercentage, ret.metrics.averageTaskWeight}

\* C12: no call of calculateRTP or calculateWorkloadMetrics evaluates a
\* division by zero, and every number returned is finite (the estimation
\* accuracy may be null).
C12_NoZeroDenominator ==
    /\ CalledRTP
           => /\ R(0) \notin rtpDenominators(user, call.filterType, call.dateRange, now)
              /\ \A x \in ReturnedByRTP : x = Null \/ IsFinite(x)
    /\ CalledWorkload
           => /\ R(0) \notin workloadDenominators(user, now)
              /\ IsFinite(ret.overloadFactor)
\* A ratio: a number from 0 to 1.
IsRatio(x) == IsFinite(x) /\ RLe(R(0), x) /\ RLe(x, R(1))

\* C30: when the three weight preferences are ratios and a task has been
\* weighted, their sum, by which the weight is divided, is not zero, and
\* neither the sum of the weights nor the percentage is NaN.
C30_NormalisedNeverNaN ==
    (CalledRTP
        /\ locals.totalTasks > 0
        /\ IsRatio(PreferencesInForce.priority)
        /\ IsRatio(PreferencesInForce.deadline)
        /\ IsRatio(PreferencesInForce.complexity))
        => /\ RAdd(RAdd(PreferencesInForce.priority, PreferencesInForce.deadline),
                   PreferencesInForce.complexity) # R(0)
           /\ ~IsNaN(locals.weightedTotalSum)
           /\ ~IsNaN(ret.percentage)

(***************************************************************************)
(* Estimates: calculateRTP on tasks with and without estimated and actual  *)
(* minutes.                                                                *)
(***************************************************************************)
MaxEstimateTasks == 2

\* Today's task or an hour's task that starts tomorrow 00:00; nothing
\* recorded, estimated only, measured only, measured at half and at more
\* than three times the estimate.
EstimateTasks ==
    {[Task(tm[1], tm[2], FALSE, "MID", 0, <<>>, 0) EXCEPT !.estimatedMinutes = e[1],
                                                           !.actualMinutes = e[2]] :
         tm \in {<<120, 144>>, <<144, 145>>},
         e \in {<<0, 0>>, <<60, 0>>, <<0, 30>>, <<60, 30>>, <<60, 200>>}}

EstimateUsers == {User(ts, NoPreferences) : ts \in SeqsUpTo(EstimateTasks, MaxEstimateTasks)}

\* 10:00 and 19:00 of day 5.
InitEstimates ==
    /\ user \in EstimateUsers
    /\ now \in {130, 139}
    /\ call = [fn |-> "none"]
    /\ ret = <<>>
    /\ locals = <<>>
    /\ form = BlankForm
    /\ log = <<>>

SpecEstimates == InitEstimates /\ [][Next]_vars

\* The tasks the call processes: in the range and of the filter's tier.
Processed == {i \in TaskIds : InRangeClosed(i) /\ MatchesFilter(i)}

RECURSIVE MinutesOf(_, _)
MinutesOf(ids, field) ==
    IF ids = {} THEN 0
    ELSE LET i == CHOOSE x \in ids : TRUE
         IN  user.tasks[i][field] + MinutesOf(ids \ {i}, field)

\* C13: when a task is processed, estimationAccuracy is null exactly when no
\* processed task has both estimated and actual minutes; otherwise it is
\* min(100, 100 - |actualTotal - estimatedTotal| / estimatedTotal * 100),
\* estimatedTotal over the processed tasks with an estimate, actualTotal
\* over those with both; it is never above 100.
C13_EstimationAccuracy ==
    LET estimated == {i \in Processed : user.tasks[i].estimatedMinutes # 0}
        both == {i \in estimated : user.tasks[i].actualMinutes # 0}
        estimatedTotal == MinutesOf(estimated, "estimatedMinutes")
        actualTotal == MinutesOf(both, "actualMinutes")
        accuracy == ret.metrics.estimationAccuracy
    IN  (CalledRTP /\ Processed # {})
            => /\ accuracy = Null <=> both = {}
               /\ both # {}
                      => /\ accuracy = RMin(R(100),
                                            RSub(R(100), Frac(Abs(actualTotal - estimatedTotal) * 100,
                                                              estimatedTotal)))
                         /\ RLe(accuracy, R(100))

\* C28: when some processed task has both estimated and actual minutes and
\* the weights do not add up to zero, estimationAccuracy is
\* min(100, 100 - |actualTotal - estimatedTotal| / estimatedTotal * 100)
\* with both totals taken over the processed tasks that have both values.
C28_SameSet ==
    LET both == {i \in Processed : user.tasks[i].estimatedMinutes # 0 /\ user.tasks[i].actualMinutes # 0}
        estimatedTotal == MinutesOf(both, "estimatedMinutes")
        actualTotal == MinutesOf(both, "actualMinutes")
    IN  (CalledRTP /\ both # {} /\ locals.weightedTotalSum # R(0))
            => ret.metrics.estimationAccuracy =
                   RMin(R(100), RSub(R(100), Frac(Abs(actualTotal - estimatedTotal) * 100, estimatedTotal)))

(***************************************************************************)
(* Deadlines: calculateWorkloadMetrics on tasks due around tomorrow's end  *)
(* of day and around the instant three days from now.                      *)
(***************************************************************************)
MaxDeadlineTasks == 3

\* Due tomorrow 00:00, tomorrow 23:00, the day after tomorrow 00:00 and
\* 02:00, and 72 and 73 hours after day 5 10:00; open or completed.
DeadlineTasks ==
    {Task(120, end, c, "LOW", 0, <<>>, 0) :
         end \in {144, 167, 168, 170, 202, 203}, c \in BOOLEAN}

DeadlineUsers ==
    {User(ts, NoPreferences) : ts \in SeqsUpTo(DeadlineTasks, MaxDeadlineTasks)}

\* 10:00 and 11:00 of day 5.
InitDeadlines ==
    /\ user \in DeadlineUsers
    /\ now \in {130, 131}
    /\ call = [fn |-> "none"]
    /\ ret = <<>>
    /\ locals = <<>>
    /\ form = BlankForm
    /\ log = <<>>

NextDeadlines == CallCalculateWorkloadMetrics \/ Return

SpecDeadlines == InitDeadlines /\ [][NextDeadlines]_vars

\* Open and due on tomorrow's calendar day or before.
DueByTomorrow == {i \in TaskIds : IsOpen(i) /\ user.tasks[i].endDateTime \div DAY <= (now \div DAY) + 1}

\* Open and due after tomorrow's calendar day.
DueAfterTomorrow ==
    {i \in TaskIds : IsOpen(i) /\ user.tasks[i].endDateTime \div DAY > (now \div DAY) + 1}

\* C14 as claimed: upcomingDeadlines counts the open tasks due strictly
\* after tomorrow's end of day and strictly before the instant three days
\* from now; no task is counted in both currentLoad and upcomingDeadlines.
C14_StrictlyBeforeThreeDays ==
    LET upcoming == {i \in DueAfterTomorrow : user.tasks[i].endDateTime < now + 3 * DAY}
    IN  CalledWorkload
            => /\ ret.upcomingDeadlines = Cardinality(upcoming)
               /\ ret.currentLoad + ret.upcomingDeadlines = Cardinality(DueByTomorrow \cup upcoming)

\* C14 amended: upcomingDeadlines counts the open tasks due strictly after
\* tomorrow's end of day and at or before the instant three days from now
\* (a deadline equal to that instant is counted); no task is counted in both
\* currentLoad and upcomingDeadlines.
C14_ThroughThreeDays ==
    LET upcoming == {i \in DueAfterTomorrow : user.tasks[i].endDateTime <= now + 3 * DAY}
    IN  CalledWorkload
            => /\ ret.upcomingDeadlines = Cardinality(upcoming)
               /\ ret.currentLoad = Cardinality(DueByTomorrow)
               /\ ret.currentLoad + ret.upcomingDeadlines = Cardinality(DueByTomorrow \cup upcoming)

\* C14 witness: one open task due tomorrow, one due exactly three days from
\* now and one an hour later: the load is 1 and one deadline is upcoming.
C14_Witness ==
    /\ CalledWorkload
    /\ Len(user.tasks) = 3
    /\ \A i \in TaskIds : IsOpen(i)
    /\ {user.tasks[i].endDateTime : i \in TaskIds} = {144, now + 3 * DAY, now + 3 * DAY + 1}
    /\ ret.currentLoad = 1
    /\ ret.upcomingDeadlines = 1
(***************************************************************************)
(* Frame: the three exported functions called in any order on one user     *)
(* and one draft.                                                          *)
(***************************************************************************)
MaxFrameTasks == 2

\* Yesterday's completed task, today's task with two subtasks, tomorrow's.
FrameTasks ==
    {Task(96, 120, TRUE, "MID", 0, <<>>, 0),
     Task(120, 144, FALSE, "LOW", 0, <<SubTask(TRUE, "LOW", 0), SubTask(FALSE, "HIGH", 0)>>, 0),
     Task(144, 168, FALSE, "HIGH", 7, <<>>, 1)}

FrameUsers ==
    {User(ts, p) : ts \in SeqsUpTo(FrameTasks, MaxFrameTasks), p \in {NoPreferences, Capacity(1)}}

InitFrame ==
    /\ user \in FrameUsers
    /\ now = 130
    /\ form \in LogForms
    /\ call = [fn |-> "none"]
    /\ ret = <<>>
    /\ locals = <<>>
    /\ log = <<>>

NextFrame ==
    \/ CallsOfCalculateRTP
    \/ CallCalculateWorkloadMetrics
    \/ CallClassifyTask
    \/ Return

SpecFrame == InitFrame /\ [][NextFrame]_vars

\* C15: no step of calculateRTP, calculateWorkloadMetrics or classifyTask
\* changes the user record, its tasks and subtasks, or the draft passed to
\* the classifier: after any sequence of calls they are as they were.
C15_ArgumentsUnchanged == [][user' = user /\ form' = form]_vars

\* C15 witness: after classifications, calculateRTP has been called with a
\* date range that leaves a task of the user out, and the user still has it.
C15_Witness ==
    /\ CalledRTP
    /\ Len(log) = MaxCalls
    /\ Len(call.dateRange) = 1
    /\ Len(user.tasks) = 2
    /\ locals.totalTasks = 1
(***************************************************************************)
(* Subtasks: calculateSubtaskContribution on one task with up to           *)
(* MaxSubTasks subtasks, and getPriorityWeight on every priority and tier. *)
(***************************************************************************)
MaxSubTasks == 3

\* LOW and HIGH without priority, the form's untyped subtask, MID with
\* priority 3; open or completed.
SubTaskKinds ==
    {SubTask(c, k[1], k[2]) :
         c \in BOOLEAN, k \in {<<"LOW", 0>>, <<"HIGH", 0>>, <<"", 0>>, <<"MID", 3>>}}

SubtaskUsers ==
    {User(<<Task(120, 144, c, "MID", 0, subs, 0)>>, NoPreferences) :
         c \in BOOLEAN, subs \in SeqsUpTo(SubTaskKinds, MaxSubTasks)}

InitSubtasks ==
    /\ user \in SubtaskUsers
    /\ now = 130
    /\ call = [fn |-> "none"]
    /\ ret = <<>>
    /\ locals = <<>>
    /\ form = BlankForm
    /\ log = <<>>

CallCalculateSubtaskContribution ==
    /\ Idle
    /\ call' = [fn |-> "calculateSubtaskContribution", task |-> user.tasks[1]]
    /\ ret' = calculateSubtaskContribution(user.tasks[1])
    /\ locals' = <<>>
    /\ UNCHANGED <<user, now, form, log>>

\* priority 0 is "no priority".
CallGetPriorityWeight(priority, type) ==
    /\ Idle
    /\ call' = [fn |-> "getPriorityWeight", priority |-> priority, type |-> type]
    /\ ret' = getPriorityWeight(priority, type)
    /\ locals' = <<>>
    /\ UNCHANGED <<user, now, form, log>>

CallsOfGetPriorityWeight ==
    \E priority \in 0..10, type \in {"LOW", "MID", "HIGH", "", "AUTO"} :
        CallGetPriorityWeight(priority, type)

NextSubtasks == CallCalculateSubtaskContribution \/ CallsOfGetPriorityWeight \/ Return

SpecSubtasks == InitSubtasks /\ [][NextSubtasks]_vars

CalledSubtaskContribution == call.fn = "calculateSubtaskContribution"

CalledGetPriorityWeight == call.fn = "getPriorityWeight"

\* The base weight of a subtask: its priority, or 2, 5, 8 by tier, else 5.
BaseWeightOf(s) ==
    IF s.priority \in 1..10 THEN s.priority
    ELSE IF s.type = "LOW" THEN 2
    ELSE IF s.type = "HIGH" THEN 8
    ELSE 5

RECURSIVE BaseWeightsOf(_, _)
BaseWeightsOf(subtasks, ids) ==
    IF ids = {} THEN 0
    ELSE LET i == CHOOSE x \in ids : TRUE
         IN  BaseWeightOf(subtasks[i]) + BaseWeightsOf(subtasks, ids \ {i})

\* C19: totalWeight is 1 whatever the number of subtasks; with subtasks,
\* completedWeight is the base weights of the completed subtasks over the
\* base weights of all, within [0,1], and 1 exactly when all are completed.
C19_SubtaskContribution ==
    LET subtasks == call.task.subTasks
        all == 1..Len(subtasks)
        done == {i \in all : subtasks[i].completed}
    IN  CalledSubtaskContribution
            => /\ ret.totalWeight = R(1)
               /\ all # {}
                      => /\ ret.completedWeight
                                = Frac(BaseWeightsOf(subtasks, done), BaseWeightsOf(subtasks, all))
                         /\ RLe(R(0), ret.completedWeight)
                         /\ RLe(ret.completedWeight, R(1))
                         /\ ret.completedWeight = R(1) <=> done = all

\* C19 witness: a completed HIGH subtask and an open LOW one: 8 of 10.
C19_Witness ==
    /\ CalledSubtaskContribution
    /\ call.task.subTasks = <<SubTask(TRUE, "HIGH", 0), SubTask(FALSE, "LOW", 0)>>
    /\ ret.completedWeight = Frac(8, 10)
    /\ ret.totalWeight = R(1)

Bit(condition) == IF condition THEN 1 ELSE 0

\* Hours from start to end of the called draft, when it has both.
HasDates == Len(call.task.startDateTime) > 0 /\ Len(call.task.endDateTime) > 0

DraftHours == call.task.endDateTime[1] - call.task.startDateTime[1]

\* C21: the three raw scores are the sums of the rule table: description
\* length, subtask count, duration (with both timestamps only), a point for
\* each keyword found, collaborators, blocking tasks and estimated minutes
\* (when present); every ladder gives its points to one tier only.
C21_RuleTable ==
    LET d == call.task.descriptionLength
        n == Len(call.task.subTasks)
        c == call.task.collaborators
        e == call.task.estimatedMinutes
        k == call.task.keywords
    IN  CalledClassify
            => /\ locals.HIGH =
                      3 * Bit(d > 300) + 2 * Bit(d > 150 /\ d <= 300)
                      + 4 * Bit(n > 5) + 3 * Bit(n > 3 /\ n <= 5)
                      + (IF HasDates
                         THEN 3 * Bit(DraftHours > 24) + 2 * Bit(DraftHours > 8 /\ DraftHours <= 24)
                         ELSE 0)
                      + Cardinality(k \cap highPriorityKeywords)
                      + 2 * Bit(c > 2)
                      + 2 * Bit(e > 240)
               /\ locals.MID =
                      2 * Bit(d > 80 /\ d <= 150)
                      + 2 * Bit(n > 0 /\ n <= 3)
                      + (IF HasDates THEN 2 * Bit(DraftHours > 2 /\ DraftHours <= 8) ELSE 0)
                      + Cardinality(k \cap midPriorityKeywords)
                      + Bit(c > 0 /\ c <= 2)
                      + Bit(call.task.blockedBy > 0)
                      + 2 * Bit(e > 60 /\ e <= 240)
               /\ locals.LOW =
                      Bit(d <= 80)
                      + Bit(n = 0)
                      + (IF HasDates THEN 2 * Bit(DraftHours <= 2) ELSE 0)
                      + Cardinality(k \cap lowPriorityKeywords)
                      + Bit(e > 0 /\ e <= 60)

\* C21 witness: a short draft without dates, one keyword of each list, three
\* collaborators, a blocking task and 241 minutes: HIGH 5, MID 2, LOW 3.
C21_Witness ==
    /\ CalledClassify
    /\ ~HasDates
    /\ call.task.descriptionLength = 0
    /\ call.task.subTasks = <<>>
    /\ call.task.keywords = {"urgent", "review", "check"}
    /\ call.task.collaborators = 3
    /\ call.task.blockedBy = 1
    /\ call.task.estimatedMinutes = 241
    /\ locals = [HIGH |-> 5, MID |-> 2, LOW |-> 3]
\* C26: the score of the returned tier is at least the score of each of the
\* other two tiers.
C26_MaximalScore ==
    CalledClassify
        => /\ locals[ret.type] >= locals.HIGH
           /\ locals[ret.type] >= locals.MID
           /\ locals[ret.type] >= locals.LOW

\* C26 witness: LOW scores above MID, HIGH above LOW, and the tier is HIGH.
C26_Witness ==
    /\ CalledClassify
    /\ locals.HIGH > locals.LOW
    /\ locals.LOW > locals.MID
    /\ ret.type = "HIGH"

\* C27: the three scores add up to 2 or more, and the priority lies in 3..9.
C27_PriorityRange ==
    CalledClassify
        => /\ locals.HIGH + locals.MID + locals.LOW >= 2
           /\ ret.priority \in 3..9

\* C27 witness: the blank draft scores 2 in all, and its priority is 3.
C27_Witness ==
    /\ CalledClassify
    /\ call.task.descriptionLength = 0
    /\ locals = [HIGH |-> 0, MID |-> 0, LOW |-> 2]
    /\ ret.priority = 3

(***************************************************************************)
(* Clock: one call of calculateRTP, task by task, while the wall clock     *)
(* runs. Every iteration reads the clock anew (calculateDynamicWeight and, *)
(* from it, calculateWorkloadMetrics); here the clock advances between     *)
(* iterations only.                                                        *)
(***************************************************************************)
MaxClockTasks == 2

MaxTicks == 1

\* Due at midnight, due the day after tomorrow 08:00, and completed.
ClockTasks ==
    {Task(120, 144, FALSE, "LOW", 0, <<>>, 0),
     Task(120, 200, FALSE, "LOW", 0, <<>>, 0),
     Task(96, 120, TRUE, "LOW", 0, <<>>, 0)}

\* Productive from 10 to 12, capacity 1.
ClockPreferences ==
    [weightPreferences |-> <<>>,
     productiveHours |-> <<[start |-> 10, end |-> 12]>>,
     workloadCapacity |-> 1]

ClockUsers ==
    {User(ts, p) : ts \in SeqsUpTo(ClockTasks, MaxClockTasks), p \in {NoPreferences, ClockPreferences}}

\* 09:00 and 23:00 of day 5.
ClockStarts == {129, 143}

InitClock ==
    /\ user \in ClockUsers
    /\ now \in ClockStarts
    /\ call = [fn |-> "none"]
    /\ ret = <<>>
    /\ locals = <<>>
    /\ form = BlankForm
    /\ log = <<>>

\* calculateRTP up to the loop: the date range is applied, the sums are zero.
BeginCalculateRTP(filterType, dateRange) ==
    /\ Idle
    /\ call' = [fn |-> "calculateRTP.forEach", filterType |-> filterType, dateRange |-> dateRange,
                tasks |-> filteredTasks(user, dateRange), startedAt |-> now]
    /\ ret' = <<>>
    /\ locals' = InitialSums
    /\ UNCHANGED <<user, now, form, log>>

\* One iteration: the task is weighted at the clock's present value.
WeighNextTask ==
    /\ call.fn = "calculateRTP.forEach"
    /\ call.tasks # <<>>
    /\ locals' = processTask(locals, Head(call.tasks), user, call.filterType, now)
    /\ call' = [call EXCEPT !.tasks = Tail(@)]
    /\ UNCHANGED <<user, now, form, ret, log>>

\* An hour passes while the loop runs, at most MaxTicks hours in all.
Elapse ==
    /\ call.fn = "calculateRTP.forEach"
    /\ \E start \in ClockStarts : start <= now /\ now < start + MaxTicks
    /\ now' = now + 1
    /\ UNCHANGED <<user, form, call, ret, locals, log>>

\* The loop is over: the result is built from the sums.
FinishCalculateRTP ==
    /\ call.fn = "calculateRTP.forEach"
    /\ call.tasks = <<>>
    /\ ret' = rtpResult(locals)
    /\ call' = [fn |-> "calculateRTP", filterType |-> call.filterType,
                dateRange |-> call.dateRange, startedAt |-> call.startedAt]
    /\ UNCHANGED <<user, now, form, locals, log>>

NextClock ==
    \/ \E filterType \in {"", "LOW"}, dateRange \in {<<>>, Today(now)} :
           BeginCalculateRTP(filterType, dateRange)
    \/ WeighNextTask
    \/ Elapse
    \/ FinishCalculateRTP
    \/ CalledRTP /\ Return

SpecClock == InitClock /\ [][NextClock]_vars

\* C23: the result of a call is the result for one fixed instant between
\* the call's start and its end, whatever the clock did in between.
C23_OneInstant ==
    CalledRTP
        => \E asOf \in call.startedAt..now :
               ret = calculateRTP(user, call.filterType, call.dateRange, asOf)
(***************************************************************************)
(* TaskList: the list of the dashboard with its filters, its sort order    *)
(* and its pages, and the dashboard's handleUpdateTask behind the          *)
(* checkboxes. A text is the sequence of its letters.                      *)
(***************************************************************************)
Lower(c) == IF c = "A" THEN "a" ELSE IF c = "B" THEN "b" ELSE c

toLowerCase(text) == [i \in 1..Len(text) |-> Lower(text[i])]

includes(text, query) ==
    \E i \in 0..(Len(text) - Len(query)) : SubSeq(text, i + 1, i + Len(query)) = query

\* Letters compared without regard to case, the shorter text first.
RECURSIVE PrimaryCompare(_, _)
PrimaryCompare(a, b) ==
    IF a = <<>> /\ b = <<>> THEN 0
    ELSE IF a = <<>> THEN -1
    ELSE IF b = <<>> THEN 1
    ELSE IF Lower(Head(a)) # Lower(Head(b))
         THEN IF Lower(Head(a)) = "a" THEN -1 ELSE 1
    ELSE PrimaryCompare(Tail(a), Tail(b))

\* Texts with the same letters: at the first difference of case the lower
\* case letter comes first.
RECURSIVE CaseCompare(_, _)
CaseCompare(a, b) ==
    IF a = <<>> \/ b = <<>> THEN 0
    ELSE IF Head(a) = Head(b) THEN CaseCompare(Tail(a), Tail(b))
    ELSE IF Head(a) = Lower(Head(a)) THEN -1 ELSE 1

\* String.prototype.localeCompare on letters, in the default collation.
localeCompare(a, b) ==
    IF PrimaryCompare(a, b) # 0 THEN PrimaryCompare(a, b) ELSE CaseCompare(a, b)

\* A task as the list shows it: the engine's fields and the texts.
ListTask(name, description, tags, end, completed, type, priority, subTasks) ==
    [name |-> name, description |-> description, tags |-> tags]
        @@ Task(end - DAY, end, completed, type, priority, subTasks, 0)

\* The predicate of user.tasks.filter.
matchesFilters(task, state) ==
    /\ ~(state.filterType # "ALL" /\ task.type # state.filterType)
    /\ ~(state.filterStatus = "COMPLETED" /\ ~task.completed)
    /\ ~(state.filterStatus = "PENDING" /\ task.completed)
    /\ state.searchQuery # <<>>
           => LET query == toLowerCase(state.searchQuery)
              IN  \/ includes(toLowerCase(task.name), query)
                  \/ includes(toLowerCase(task.description), query)
                  \/ \E tag \in task.tags : includes(toLowerCase(tag), query)

listFilteredTasks(u, state) == SelectSeq(u.tasks, LAMBDA task : matchesFilters(task, state))

\* The comparator of the sort; a task without priority counts as 5.
compareTasks(a, b, sortBy) ==
    IF sortBy = "deadline" THEN a.endDateTime - b.endDateTime
    ELSE IF sortBy = "priority"
         THEN (IF b.priority = 0 THEN 5 ELSE b.priority) - (IF a.priority = 0 THEN 5 ELSE a.priority)
    ELSE localeCompare(a.name, b.name)

RECURSIVE insertSorted(_, _, _)
insertSorted(sorted, task, sortBy) ==
    IF sorted = <<>> THEN <<task>>
    ELSE IF compareTasks(Head(sorted), task, sortBy) <= 0
         THEN <<Head(sorted)>> \o insertSorted(Tail(sorted), task, sortBy)
    ELSE <<task>> \o sorted

\* Array.prototype.sort: stable.
RECURSIVE sort(_, _)
sort(tasks, sortBy) ==
    IF tasks = <<>> THEN <<>>
    ELSE insertSorted(sort(SubSeq(tasks, 1, Len(tasks) - 1), sortBy), tasks[Len(tasks)], sortBy)

sortedTasks(u, state) == sort(listFilteredTasks(u, state), state.sortBy)

tasksPerPage(props) == IF props.limit # 0 THEN props.limit ELSE 10

totalPages(u, props, state) ==
    (Len(sortedTasks(u, state)) + tasksPerPage(props) - 1) \div tasksPerPage(props)

\* Indices as in the code, from 0.
startIndex(props, state) == (state.currentPage - 1) * tasksPerPage(props)

endIndex(u, props, state) ==
    IntMin(startIndex(props, state) + tasksPerPage(props), Len(sortedTasks(u, state)))

\* Array.prototype.slice(startIndex, endIndex).
currentTasks(u, props, state) ==
    SubSeq(sortedTasks(u, state), startIndex(props, state) + 1, endIndex(u, props, state))

\* The dashboard's handleUpdateTask on the selected user's tasks; taskIndex
\* and subtaskIndex count from 0, subtaskIndex is <<>> or <<i>>. A task
\* without subtasks has subTasks undefined (absent) or empty: with an empty
\* array the assignment throws and nothing is stored.
handleUpdateTask(tasks, taskIndex, completed, subtaskIndex, absent) ==
    LET task == tasks[taskIndex + 1]
    IN  IF subtaskIndex # <<>> /\ ~(task.subTasks = <<>> /\ absent)
        THEN IF subtaskIndex[1] + 1 \in DOMAIN task.subTasks
             THEN [tasks EXCEPT ![taskIndex + 1].subTasks[subtaskIndex[1] + 1].completed = completed]
             ELSE tasks
        ELSE [tasks EXCEPT ![taskIndex + 1].completed = completed]

MaxListTasks == 11

MaxUpdates == 2

\* The i-th task of the seeded list: names differ, deadlines are not in the
\* order of the list.
SeedTask(i) ==
    ListTask(<<<<"a", "A", "b", "B">>[(i % 4) + 1], <<"a", "A", "b", "B">>[((i \div 4) % 4) + 1]>>,
             IF i % 6 = 0 THEN <<"a">> ELSE <<>>,
             IF i % 7 = 0 THEN {<<"B", "a">>} ELSE {},
             240 + ((i * 7) % 13) * DAY,
             i % 4 = 0,
             <<"LOW", "MID", "HIGH">>[(i % 3) + 1],
             (i % 5) * 2,
             IF i % 5 = 1 THEN <<SubTask(FALSE, "LOW", 0), SubTask(TRUE, "LOW", 0)>> ELSE <<>>)

ListUsers ==
    {User([i \in 1..n |-> SeedTask(i)], NoPreferences) : n \in {0, 6, MaxListTasks}}

\* The two lists of the dashboard: the overview's (limit 5, no filters) and
\* the tasks tab's (no limit, filters).
ListProps ==
    {[fn |-> "TaskList", limit |-> 5, showFilters |-> FALSE],
     [fn |-> "TaskList", limit |-> 0, showFilters |-> TRUE]}

InitList ==
    /\ user \in ListUsers
    /\ now = 130
    /\ call \in ListProps
    /\ locals = [currentPage |-> 1, filterType |-> "ALL", filterStatus |-> "ALL",
                 searchQuery |-> <<>>, sortBy |-> "deadline"]
    /\ ret = <<>>
    /\ form = BlankForm
    /\ log = <<>>

SetSearchQuery(value) ==
    /\ call.showFilters
    /\ locals' = [locals EXCEPT !.searchQuery = value]
    /\ UNCHANGED <<user, now, form, call, ret, log>>

SetFilterType(value) ==
    /\ call.showFilters
    /\ locals' = [locals EXCEPT !.filterType = value]
    /\ UNCHANGED <<user, now, form, call, ret, log>>

SetFilterStatus(value) ==
    /\ call.showFilters
    /\ locals' = [locals EXCEPT !.filterStatus = value]
    /\ UNCHANGED <<user, now, form, call, ret, log>>

SetSortBy(value) ==
    /\ call.showFilters
    /\ locals' = [locals EXCEPT !.sortBy = value]
    /\ UNCHANGED <<user, now, form, call, ret, log>>

ChangesOfFilters ==
    \/ \E value \in {<<>>, <<"A">>} : SetSearchQuery(value)
    \/ \E value \in {"ALL", "HIGH"} : SetFilterType(value)
    \/ \E value \in {"ALL", "COMPLETED", "PENDING"} : SetFilterStatus(value)
    \/ \E value \in {"deadline", "priority", "name"} : SetSortBy(value)

\* The pages the pagination offers: previous, next, first, last and the
\* neighbours of the current page.
PagesOffered(u, props, state) ==
    {1, state.currentPage - 1, state.currentPage + 1, totalPages(u, props, state)}

\* A click in the pagination, shown when there is more than one page.
handlePageChange(page) ==
    /\ totalPages(user, call, locals) > 1
    /\ locals' = IF page >= 1 /\ page <= totalPages(user, call, locals)
                 THEN [locals EXCEPT !.currentPage = page]
                 ELSE locals
    /\ UNCHANGED <<user, now, form, call, ret, log>>

\* The checkbox of the task shown at position index of the page.
TickTask(index) ==
    /\ Len(log) < MaxUpdates
    /\ index + 1 \in DOMAIN currentTasks(user, call, locals)
    /\ LET task == currentTasks(user, call, locals)[index + 1]
           actualIndex == startIndex(call, locals) + index
       IN  user' = [user EXCEPT !.tasks = handleUpdateTask(@, actualIndex, ~task.completed, <<>>, TRUE)]
    /\ log' = Append(log, "handleUpdateTask")
    /\ UNCHANGED <<now, form, call, ret, locals>>

\* The checkbox of a subtask of the task shown at position index, the task
\* being expanded.
TickSubtask(index, subIndex, absent) ==
    /\ Len(log) < MaxUpdates
    /\ index + 1 \in DOMAIN currentTasks(user, call, locals)
    /\ LET task == currentTasks(user, call, locals)[index + 1]
           actualIndex == startIndex(call, locals) + index
       IN  /\ subIndex + 1 \in DOMAIN task.subTasks
           /\ user' = [user EXCEPT !.tasks =
                           handleUpdateTask(@, actualIndex, ~task.subTasks[subIndex + 1].completed,
                                            <<subIndex>>, absent)]
    /\ log' = Append(log, "handleUpdateTask")
    /\ UNCHANGED <<now, form, call, ret, locals>>

NextList ==
    \/ ChangesOfFilters
    \/ \E page \in PagesOffered(user, call, locals) : handlePageChange(page)
    \/ \E index \in 0..(tasksPerPage(call) - 1) : TickTask(index)
    \/ \E index \in 0..(tasksPerPage(call) - 1), subIndex \in 0..1, absent \in BOOLEAN :
           TickSubtask(index, subIndex, absent)

SpecList == InitList /\ [][NextList]_vars

\* The place in the collection of the task called name.
PlaceOf(name) == CHOOSE i \in DOMAIN user.tasks : user.tasks[i].name = name

\* C24: ticking the checkbox of a displayed task, or of one of its
\* subtasks, flips the completed flag of that task, or of that subtask, in
\* user.tasks and changes nothing else.
C24_SameTask ==
    [][/\ \A index \in 0..(tasksPerPage(call) - 1) :
              TickTask(index)
                  => LET task == currentTasks(user, call, locals)[index + 1]
                     IN  user'.tasks = [user.tasks EXCEPT ![PlaceOf(task.name)].completed = ~@]
       /\ \A index \in 0..(tasksPerPage(call) - 1), subIndex \in 0..1, absent \in BOOLEAN :
              TickSubtask(index, subIndex, absent)
                  => LET task == currentTasks(user, call, locals)[index + 1]
                     IN  user'.tasks =
                             [user.tasks EXCEPT ![PlaceOf(task.name)].subTasks[subIndex + 1].completed = ~@]]_vars

\* C25: the current page lies within 1..max(1, totalPages), and it shows a
\* task whenever some task matches the filters.
C25_PageInRange ==
    /\ locals.currentPage >= 1
    /\ locals.currentPage <= IF totalPages(user, call, locals) > 1 THEN totalPages(user, call, locals) ELSE 1
    /\ sortedTasks(user, locals) # <<>> => currentTasks(user, call, locals) # <<>>
====
